---- MODULE Spec2Model ----
(***************************************************************************)
(* A model of the currency converter: the quarter-end resolver and the     *)
(* Treasury response parser of business/currency_service.py, the fetch      *)
(* client of dal/dal.py, and the thread structure of gui/gui.py (one        *)
(* interactive thread running the Tk event loop, a ThreadPoolExecutor       *)
(* running get_currency_data, completion callbacks and `after` handlers).   *)
(***************************************************************************)
EXTENDS Integers, Sequences, FiniteSets, TLC

VARIABLES
    today,          \* the wall clock read by datetime.now(): [year, month, day]
    qres,           \* outcome of a direct call of find_last_quarter_date
    transport,      \* what requests.get does: "ok" or the exception it raises
    response,       \* the response requests.get returns (NoResponse when it raises)
    gets,           \* number of GET requests issued
    fetchCalls,     \* number of invocations of fetch_treasury_data
    fetchOut,       \* outcome of a direct call of fetch_treasury_data
    parseOut,       \* outcome of a direct call of parse_treasury_response
    getOut,         \* outcome of a call of get_currency_data
    threaded,       \* whether Tcl was built with thread support
    mainPc,         \* where the interactive thread is
    tasks,          \* the futures submitted to the executor, in submission order
    afterQueue,     \* handlers scheduled with self.after(0, ...), oldest first
    button,         \* state of convert_button
    dropdownState,  \* state of currency_dropdown
    dropdownValues, \* values of currency_dropdown
    selection,      \* currency_dropdown.get()
    usdEntry,       \* usd_entry.get(), by the kind of text it holds
    resultText,     \* what result_text shows
    mutations       \* every presentation update so far: <<handler, thread>>

qvars == <<today, qres>>
pvars == <<transport, response, gets, fetchCalls, fetchOut, parseOut, getOut>>
gvars == <<threaded, mainPc, tasks, afterQueue, button, dropdownState,
           dropdownValues, selection, usdEntry, resultText, mutations>>
vars == <<today, qres, transport, response, gets, fetchCalls, fetchOut,
          parseOut, getOut, threaded, mainPc, tasks, afterQueue, button,
          dropdownState, dropdownValues, selection, usdEntry, resultText,
          mutations>>

----------------------------------------------------------------------------
(* Outcomes of a call: nothing yet, a returned value, or a raised exception *)

None == [kind |-> "none"]
Return(v) == [kind |-> "return", value |-> v]
Raise(e) == [kind |-> "raise", exc |-> e]

----------------------------------------------------------------------------
(* Bounds of the model *)

FirstYear == 2019
NumYears == 6
MaxRows == 2
MaxTasks == 3

----------------------------------------------------------------------------
(* datetime: the proleptic Gregorian calendar *)

APRIL == 4
ONE_YEAR_IN_DAYS == 365
JULY == 7
OCTOBER == 10
DECEMBER == 12

IsLeap(y) == (y % 4 = 0) /\ ((y % 100 # 0) \/ (y % 400 = 0))

DaysInMonth(y, m) ==
    IF m = 2 THEN (IF IsLeap(y) THEN 29 ELSE 28)
    ELSE IF m \in {4, 6, 9, 11} THEN 30 ELSE 31

DaysBeforeYear(y) ==
    (y - 1) * 365 + ((y - 1) \div 4) - ((y - 1) \div 100) + ((y - 1) \div 400)

RECURSIVE DaysBeforeMonth(_, _)
DaysBeforeMonth(y, m) ==
    IF m = 1 THEN 0 ELSE DaysBeforeMonth(y, m - 1) + DaysInMonth(y, m - 1)

MkDate(y, m, d) == [year |-> y, month |-> m, day |-> d]

ValidYmd(y, m, d) ==
    /\ y >= 1
    /\ m \in 1..12
    /\ d \in 1..DaysInMonth(y, m)

ToOrdinal(t) == DaysBeforeYear(t.year) + DaysBeforeMonth(t.year, t.month) + t.day

\* The years of the model, with a margin for the arithmetic below.
Years ==
    (FirstYear..(FirstYear + NumYears)) \cup {2000, 2001, 2023, 2024, 2100, 2101}

YearSearch ==
    UNION {{y - 2, y - 1, y, y + 1} : y \in Years}

FromOrdinal(n) ==
    LET y == CHOOSE yy \in YearSearch :
                 DaysBeforeYear(yy) < n /\ n <= DaysBeforeYear(yy + 1)
        r == n - DaysBeforeYear(y)
        m == CHOOSE mm \in 1..12 :
                 /\ DaysBeforeMonth(y, mm) < r
                 /\ r <= DaysBeforeMonth(y, mm) + DaysInMonth(y, mm)
    IN  MkDate(y, m, r - DaysBeforeMonth(y, m))

\* today - timedelta(days=n)
MinusDays(t, n) == FromOrdinal(ToOrdinal(t) - n)

\* datetime.strptime(text, '%Y-%m-%d').date(), the text given by its three
\* fields <<year, month, day>>: a date, or ValueError when the fields name none.
strptime(s) ==
    IF ValidYmd(s[1], s[2], s[3])
    THEN Return(MkDate(s[1], s[2], s[3]))
    ELSE Raise("ValueError")

Dates ==
    {t \in [year : Years, month : 1..12, day : 1..31] :
        t.day <= DaysInMonth(t.year, t.month)}

----------------------------------------------------------------------------
(* business/currency_service.py: find_last_quarter_date *)

find_last_quarter_date_366(t) ==
    IF t.month < APRIL
    THEN strptime(<<MinusDays(t, ONE_YEAR_IN_DAYS + 1).year, 12, 31>>)
    ELSE IF t.month < JULY THEN strptime(<<t.year, 3, 31>>)
    ELSE IF t.month < OCTOBER THEN strptime(<<t.year, 6, 30>>)
    ELSE IF t.month <= DECEMBER THEN strptime(<<t.year, 9, 30>>)
    ELSE Raise("BusinessLogicException")

find_last_quarter_date(t) ==
    IF t.month < APRIL
    THEN strptime(<<MinusDays(t, ONE_YEAR_IN_DAYS).year, 12, 31>>)
    ELSE IF t.month < JULY THEN strptime(<<t.year, 3, 31>>)
    ELSE IF t.month < OCTOBER THEN strptime(<<t.year, 6, 30>>)
    ELSE IF t.month <= DECEMBER THEN strptime(<<t.year, 9, 30>>)
    ELSE Raise("BusinessLogicException")

----------------------------------------------------------------------------
(* The Treasury API: responses and their rows *)

Countries == {"Germany", "France"}
CurrencyNames == {"Euro", "Mark"}
Rates == {"0.94"}
RowKeys == {"record_date", "country", "currency", "exchange_rate"}

\* The record_date texts of the feed, by their fields: two quarter ends and
\* a text that names no date.
GoodDateTexts == {<<2023, 9, 30>>, <<2023, 12, 31>>}
BadDateTexts == {<<2023, 9, 31>>}

\* The clock while the pipeline runs: one day whose quarter end is each of
\* the good texts.
PipelineDays == {MkDate(2023, 11, 6), MkDate(2024, 2, 29)}

Restrict(f, S) == [k \in S |-> f[k]]

WellFormedRows ==
    [record_date : GoodDateTexts, country : Countries,
     currency : CurrencyNames, exchange_rate : Rates]

\* Rows lacking one field, and rows whose record_date is no date.
MalformedRows ==
    {Restrict(r, RowKeys \ {k}) :
        r \in {w \in WellFormedRows :
                  w.country = "Germany" /\ w.currency = "Euro"},
        k \in RowKeys}
    \cup [record_date : BadDateTexts, country : {"Germany"},
          currency : {"Euro"}, exchange_rate : Rates]

Rows == WellFormedRows \cup MalformedRows

RowSeqs == UNION {[1..n -> Rows] : n \in 0..MaxRows}

EmptyDict == [k \in {} |-> <<>>]

\* Response bodies: text that is no JSON, a JSON object without "data", a
\* JSON object whose "data" is an array of rows.
Bodies ==
    {[kind |-> "text"], [kind |-> "object", members |-> EmptyDict]}
    \cup {[kind |-> "object", members |-> [data |-> rs]] : rs \in RowSeqs}

StatusCodes == {200, 404, 500}

Responses == [status_code : StatusCodes, body : Bodies]

NoResponse == [status_code |-> 0, body |-> [kind |-> "text"]]

\* What requests.get does: it returns, or raises one of these.
TransportFailures == {"Timeout", "ConnectionError", "RequestException"}

----------------------------------------------------------------------------
(* models/currency.py *)

Currency(country_name, currency_name, conversion_rate) ==
    [country_name |-> country_name, currency_name |-> currency_name,
     conversion_rate |-> conversion_rate]

----------------------------------------------------------------------------
(* dal/dal.py: fetch_treasury_data *)

fetch_treasury_data_leaky(tr, resp) ==
    IF tr = "ok" THEN Return(resp)
    ELSE IF tr = "Timeout" THEN Raise("DalException")
    ELSE IF tr = "ConnectionError" THEN Raise("ConnectionError")
    ELSE Raise("DalException")

\* The outcome of the one requests.get of an invocation, tr, becomes the
\* outcome of the invocation.
fetch_treasury_data(tr, resp) ==
    IF tr = "ok" THEN Return(resp)
    ELSE IF tr = "Timeout" THEN Raise("DalException")
    ELSE IF tr = "ConnectionError" THEN Raise("DalException")
    ELSE Raise("DalException")

----------------------------------------------------------------------------
(* business/currency_service.py: parse_treasury_response *)

\* response.raise_for_status()
raise_for_status(resp) ==
    IF resp.status_code >= 400 /\ resp.status_code < 600
    THEN Raise("HTTPError") ELSE Return(TRUE)

\* response.json()
json(resp) ==
    IF resp.body.kind = "text" THEN Raise("JSONDecodeError")
    ELSE Return(resp.body)

\* response_json['data']
GetData(js) ==
    IF "data" \notin DOMAIN js.members THEN Raise("KeyError")
    ELSE Return(js.members["data"])

\* currency_dict with country_name set to list
DictSet(d, k, v) ==
    [c \in DOMAIN d \cup {k} |-> IF c = k THEN v ELSE d[c]]

parse_row_overwrite(result, last_quarter_date, currency_dict) ==
    IF "record_date" \notin DOMAIN result THEN Raise("KeyError")
    ELSE
    LET record_date == strptime(result["record_date"]) IN
    IF record_date.kind = "raise" THEN record_date
    ELSE IF "country" \notin DOMAIN result THEN Raise("KeyError")
    ELSE IF "currency" \notin DOMAIN result THEN Raise("KeyError")
    ELSE IF "exchange_rate" \notin DOMAIN result THEN Raise("KeyError")
    ELSE
    LET new == Currency(result["country"], result["currency"],
                        result["exchange_rate"]) IN
    IF record_date.value = last_quarter_date
    THEN Return(DictSet(currency_dict, result["country"], <<new>>))
    ELSE Return(currency_dict)

parse_row_any_date(result, last_quarter_date, currency_dict) ==
    IF "record_date" \notin DOMAIN result THEN Raise("KeyError")
    ELSE
    LET record_date == strptime(result["record_date"]) IN
    IF record_date.kind = "raise" THEN record_date
    ELSE IF "country" \notin DOMAIN result THEN Raise("KeyError")
    ELSE IF "currency" \notin DOMAIN result THEN Raise("KeyError")
    ELSE IF "exchange_rate" \notin DOMAIN result THEN Raise("KeyError")
    ELSE
    LET new == Currency(result["country"], result["currency"],
                        result["exchange_rate"]) IN
    IF result["country"] \in DOMAIN currency_dict
    THEN Return(DictSet(currency_dict, result["country"],
                        Append(currency_dict[result["country"]], new)))
    ELSE Return(DictSet(currency_dict, result["country"], <<new>>))

\* One pass of the loop over response_json['data']: the dict after the row,
\* or the exception the row raises.
parse_row(result, last_quarter_date, currency_dict) ==
    IF "record_date" \notin DOMAIN result THEN Raise("KeyError")
    ELSE
    LET record_date == strptime(result["record_date"]) IN
    IF record_date.kind = "raise" THEN record_date
    ELSE IF "country" \notin DOMAIN result THEN Raise("KeyError")
    ELSE IF "currency" \notin DOMAIN result THEN Raise("KeyError")
    ELSE IF "exchange_rate" \notin DOMAIN result THEN Raise("KeyError")
    ELSE
    LET new == Currency(result["country"], result["currency"],
                        result["exchange_rate"]) IN
    IF record_date.value = last_quarter_date
    THEN IF result["country"] \in DOMAIN currency_dict
         THEN Return(DictSet(currency_dict, result["country"],
                             Append(currency_dict[result["country"]], new)))
         ELSE Return(DictSet(currency_dict, result["country"], <<new>>))
    ELSE Return(currency_dict)

RECURSIVE parse_rows(_, _, _, _)
parse_rows(data, i, last_quarter_date, currency_dict) ==
    IF i > Len(data) THEN Return(currency_dict)
    ELSE LET step == parse_row(data[i], last_quarter_date, currency_dict) IN
         IF step.kind = "raise" THEN step
         ELSE parse_rows(data, i + 1, last_quarter_date, step.value)

parse_body_unchecked(resp, t) ==
    LET response_json == json(resp) IN
    IF response_json.kind = "raise" THEN response_json
    ELSE
    LET last_quarter_date == find_last_quarter_date(t) IN
    IF last_quarter_date.kind = "raise" THEN last_quarter_date
    ELSE
    LET data == GetData(response_json.value) IN
    IF data.kind = "raise" THEN data
    ELSE parse_rows(data.value, 1, last_quarter_date.value, EmptyDict)

\* The body of parse_treasury_response, before the decorator.
parse_body(resp, t) ==
    IF raise_for_status(resp).kind = "raise" THEN raise_for_status(resp)
    ELSE
    LET response_json == json(resp) IN
    IF response_json.kind = "raise" THEN response_json
    ELSE
    LET last_quarter_date == find_last_quarter_date(t) IN
    IF last_quarter_date.kind = "raise" THEN last_quarter_date
    ELSE
    LET data == GetData(response_json.value) IN
    IF data.kind = "raise" THEN data
    ELSE parse_rows(data.value, 1, last_quarter_date.value, EmptyDict)

\* The wrapper of handle_request_errors around an outcome of the wrapped call.
handle_request_errors(out) ==
    IF out.kind = "raise" /\
       out.exc \in {"HTTPError", "JSONDecodeError", "KeyError", "IndexError"}
    THEN Raise("BusinessLogicException")
    ELSE out

parse_treasury_response(resp, t) == handle_request_errors(parse_body(resp, t))

\* get_currency_data, given the outcome of the GET it causes.
get_currency_data(tr, resp, t) ==
    LET fetched == fetch_treasury_data(tr, resp) IN
    IF fetched.kind = "raise"
    THEN IF fetched.exc \in {"DalException", "BusinessLogicException"}
         THEN Raise("BusinessLogicException") ELSE fetched
    ELSE LET currency_dict == parse_treasury_response(fetched.value, t) IN
         IF currency_dict.kind = "raise" /\
            currency_dict.exc \in {"DalException", "BusinessLogicException"}
         THEN Raise("BusinessLogicException")
         ELSE currency_dict

----------------------------------------------------------------------------
(* The states in which a part of the program is not running *)

QuarterOff == today = MkDate(2023, 11, 6) /\ qres = None

PipelineOff ==
    /\ transport = "ok"
    /\ response = NoResponse
    /\ gets = 0
    /\ fetchCalls = 0
    /\ fetchOut = None
    /\ parseOut = None
    /\ getOut = None

GuiOff ==
    /\ threaded = TRUE
    /\ mainPc = "off"
    /\ tasks = <<>>
    /\ afterQueue = <<>>
    /\ button = "disabled"
    /\ dropdownState = "disabled"
    /\ dropdownValues = {}
    /\ selection = ""
    /\ usdEntry = "blank"
    /\ resultText = ""
    /\ mutations = {}

----------------------------------------------------------------------------
(* find_last_quarter_date under every clock *)

InitQuarter ==
    /\ today \in Dates
    /\ qres = None
    /\ PipelineOff
    /\ GuiOff

CallFindLastQuarterDate ==
    /\ qres = None
    /\ qres' = find_last_quarter_date(today)
    /\ UNCHANGED <<today, pvars, gvars>>

NextQuarter == CallFindLastQuarterDate

SpecQuarter == InitQuarter /\ [][NextQuarter]_vars

----------------------------------------------------------------------------
(* The fetch and parse pipeline under every transport outcome and response *)

InitPipeline ==
    /\ today \in PipelineDays
    /\ qres = None
    /\ \/ transport \in TransportFailures /\ response = NoResponse
       \/ transport = "ok" /\ response \in Responses
    /\ gets = 0
    /\ fetchCalls = 0
    /\ fetchOut = None
    /\ parseOut = None
    /\ getOut = None
    /\ GuiOff

\* dal.fetch_treasury_data()
CallFetch ==
    /\ fetchOut = None
    /\ gets' = gets + 1
    /\ fetchCalls' = fetchCalls + 1
    /\ fetchOut' = fetch_treasury_data(transport, response)
    /\ UNCHANGED <<qvars, transport, response, parseOut, getOut, gvars>>

\* parse_treasury_response(response), on a response that exists
CallParse ==
    /\ transport = "ok"
    /\ parseOut = None
    /\ parseOut' = parse_treasury_response(response, today)
    /\ UNCHANGED <<qvars, transport, response, gets, fetchCalls, fetchOut,
                   getOut, gvars>>

\* business.get_currency_data(), which fetches once and parses
CallGet ==
    /\ getOut = None
    /\ gets' = gets + 1
    /\ fetchCalls' = fetchCalls + 1
    /\ getOut' = get_currency_data(transport, response, today)
    /\ UNCHANGED <<qvars, transport, response, fetchOut, parseOut, gvars>>

NextPipeline == CallFetch \/ CallParse \/ CallGet

SpecPipeline == InitPipeline /\ [][NextPipeline]_vars

----------------------------------------------------------------------------
(* gui/gui.py: ConversionForm.  One interactive thread runs the Tk event    *)
(* loop and every handler; the executor's worker threads run                 *)
(* get_currency_data and, when the future completes, its done callback.      *)

LoadingText == <<"Loading currency list, one moment.">>
ReadyText == <<"Currencies loaded, ready to convert!">>
ErrorText == <<"Error loading currency data">>

\* What usd_entry can hold, by what validate_usd makes of it.
UsdTexts == {"blank", "text", "nonpositive", "positive"}

\* The mappings get_currency_data returns to the form.
GuiDicts ==
    {EmptyDict,
     [Germany |-> <<Currency("Germany", "Euro", "0.94")>>],
     [Germany |-> <<Currency("Germany", "Euro", "0.94"),
                    Currency("Germany", "Mark", "0.94")>>,
      France |-> <<Currency("France", "Euro", "0.94")>>]}

\* The outcomes of business.get_currency_data in a worker.
GuiOutcomes == {Return(d) : d \in GuiDicts} \cup {Raise("BusinessLogicException")}

\* executor.submit(business.get_currency_data): a future without callback
NewTask(kind) ==
    [kind |-> kind, state |-> "queued", cb |-> FALSE, result |-> None,
     handled |-> FALSE, ending |-> "none"]

\* A thread other than the interpreter's can run a Tcl command at once when
\* Tcl has no thread support; with thread support the command is sent to the
\* interpreter's thread, and the caller waits until the event loop runs it.
CanCallTcl(thread) == thread = "main" \/ ~threaded \/ mainPc = "idle"

Scheduled(fn, i) == [fn |-> fn, arg |-> tasks[i].result, task |-> i]

\* Currency.convert for each currency of the selected country, one per line
ConversionText(list) == [k \in 1..Len(list) |-> list[k].currency_name]

\* validate_combobox()
validate_combobox == selection # ""

\* validate_usd(), with is_float
validate_usd == usdEntry = "positive"

InitGui ==
    /\ QuarterOff
    /\ PipelineOff
    /\ threaded \in BOOLEAN
    /\ mainPc = "idle"
    /\ tasks = <<[NewTask("first_load") EXCEPT !.cb = TRUE]>>
    /\ afterQueue = <<>>
    /\ button = "disabled"
    /\ dropdownState = "disabled"
    /\ dropdownValues = {}
    /\ selection = ""
    /\ usdEntry = "blank"
    /\ resultText = LoadingText
    /\ mutations = {<<"on_load", "main">>}

\* on_currency_data_received_first_load(future) and
\* on_currency_data_received_for_convert(future), run by thread
DoneCallback(i, thread) ==
    LET t == tasks[i] IN
    /\ CanCallTcl(thread)
    /\ IF t.result.kind = "return"
       THEN /\ afterQueue' = Append(afterQueue,
                   Scheduled(IF t.kind = "first_load"
                             THEN "update_conversion_form_first_load"
                             ELSE "update_conversion_form_for_convert", i))
            /\ tasks' = [tasks EXCEPT ![i].state = "done", ![i].result = None]
            /\ UNCHANGED <<resultText, mutations>>
       ELSE IF t.kind = "first_load"
       THEN /\ afterQueue' = Append(afterQueue, Scheduled("update_gui_on_error", i))
            /\ tasks' = [tasks EXCEPT ![i].state = "done", ![i].result = None]
            /\ UNCHANGED <<resultText, mutations>>
       ELSE \* self.after(0, self.update_gui_on_error(e)): the call is made here
            /\ resultText' = ErrorText
            /\ mutations' = mutations \cup {<<"update_gui_on_error", thread>>}
            /\ tasks' = [tasks EXCEPT ![i].state = "done", ![i].result = None,
                                      ![i].handled = TRUE, ![i].ending = "error"]
            /\ UNCHANGED afterQueue

\* A worker ends business.get_currency_data and sets the future's result
WorkerFinish(i, out) ==
    /\ tasks[i].state = "queued"
    /\ tasks' = [tasks EXCEPT ![i].result = out,
                  ![i].state = IF tasks[i].cb THEN "callback" ELSE "finished"]
    /\ UNCHANGED <<qvars, pvars, threaded, mainPc, afterQueue, button,
                   dropdownState, dropdownValues, selection, usdEntry,
                   resultText, mutations>>

\* The worker that set the result runs the callback registered by then
WorkerCallback(i) ==
    /\ tasks[i].state = "callback"
    /\ DoneCallback(i, "worker")
    /\ UNCHANGED <<qvars, pvars, threaded, mainPc, button, dropdownState,
                   dropdownValues, selection, usdEntry>>

convert_onclick_unlocked ==
    /\ mainPc = "idle"
    /\ button = "normal"
    /\ Len(tasks) < MaxTasks
    /\ tasks' = Append(tasks, NewTask("convert"))
    /\ mainPc' = "add_done_callback"
    /\ mutations' = mutations \cup {<<"convert_onclick", "main">>}
    /\ UNCHANGED <<qvars, pvars, threaded, afterQueue, button, dropdownState,
                   dropdownValues, selection, usdEntry, resultText>>

\* convert_onclick up to executor.submit in request_currency_data_for_convert
convert_onclick ==
    /\ mainPc = "idle"
    /\ button = "normal"
    /\ Len(tasks) < MaxTasks
    /\ button' = "disabled"
    /\ tasks' = Append(tasks, NewTask("convert"))
    /\ mainPc' = "add_done_callback"
    /\ mutations' = mutations \cup {<<"convert_onclick", "main">>}
    /\ UNCHANGED <<qvars, pvars, threaded, afterQueue, dropdownState,
                   dropdownValues, selection, usdEntry, resultText>>

\* future.add_done_callback(...): registered while the future is pending,
\* called at once by the interactive thread when it has completed
add_done_callback ==
    /\ mainPc = "add_done_callback"
    /\ mainPc' = "idle"
    /\ IF tasks[Len(tasks)].state = "queued"
       THEN /\ tasks' = [tasks EXCEPT ![Len(tasks)].cb = TRUE]
            /\ UNCHANGED <<afterQueue, resultText, mutations>>
       ELSE DoneCallback(Len(tasks), "main")
    /\ UNCHANGED <<qvars, pvars, threaded, button, dropdownState,
                   dropdownValues, selection, usdEntry>>

\* update_conversion_form_first_load(currency_dict)
update_conversion_form_first_load(currency_dict) ==
    /\ dropdownValues' = DOMAIN currency_dict
    /\ resultText' = ReadyText
    /\ dropdownState' = "readonly"
    /\ button' = "normal"
    /\ UNCHANGED <<selection, usdEntry>>

\* How update_conversion_form_for_convert(currency_dict) ends: the
\* conversion rendered, the lookup of the country raising KeyError, or a
\* failed validation.
ConvertEnding(currency_dict) ==
    IF validate_combobox /\ validate_usd
    THEN IF selection \in DOMAIN currency_dict
         THEN "rendered" ELSE "lookup_failed"
    ELSE "invalid"

\* update_conversion_form_for_convert(currency_dict)
update_conversion_form_for_convert(currency_dict) ==
    IF validate_combobox /\ validate_usd
    THEN IF selection \in DOMAIN currency_dict
         THEN /\ resultText' = ConversionText(currency_dict[selection])
              /\ button' = "normal"
              /\ UNCHANGED <<dropdownState, dropdownValues, selection, usdEntry>>
         ELSE \* currency_dict[country_to_convert] raises KeyError after
              \* result_text was emptied; the handler ends there
              /\ resultText' = <<>>
              /\ UNCHANGED <<button, dropdownState, dropdownValues, selection,
                             usdEntry>>
    ELSE /\ usdEntry' = "blank"
         /\ button' = "normal"
         /\ UNCHANGED <<dropdownState, dropdownValues, selection, resultText>>

\* update_gui_on_error(error)
update_gui_on_error ==
    /\ resultText' = ErrorText
    /\ UNCHANGED <<button, dropdownState, dropdownValues, selection, usdEntry>>

\* The event loop runs the oldest handler scheduled with self.after(0, ...)
RunAfter ==
    /\ mainPc = "idle"
    /\ afterQueue # <<>>
    /\ LET h == Head(afterQueue) IN
       /\ afterQueue' = Tail(afterQueue)
       /\ mutations' = mutations \cup {<<h.fn, "main">>}
       /\ IF h.fn = "update_conversion_form_first_load"
          THEN /\ update_conversion_form_first_load(h.arg.value)
               /\ tasks' = [tasks EXCEPT ![h.task].handled = TRUE,
                                         ![h.task].ending = "loaded"]
          ELSE IF h.fn = "update_conversion_form_for_convert"
          THEN /\ update_conversion_form_for_convert(h.arg.value)
               /\ tasks' = [tasks EXCEPT ![h.task].handled = TRUE,
                                         ![h.task].ending =
                                             ConvertEnding(h.arg.value)]
          ELSE /\ update_gui_on_error
               /\ tasks' = [tasks EXCEPT ![h.task].handled = TRUE,
                                         ![h.task].ending = "error"]
    /\ UNCHANGED <<qvars, pvars, threaded, mainPc>>

\* The user edits the USD entry
UserTypes(text) ==
    /\ mainPc = "idle"
    /\ text # usdEntry
    /\ usdEntry' = text
    /\ UNCHANGED <<qvars, pvars, threaded, mainPc, tasks, afterQueue, button,
                   dropdownState, dropdownValues, selection, resultText,
                   mutations>>

\* The user picks a country in the read-only dropdown
UserSelects(country) ==
    /\ mainPc = "idle"
    /\ dropdownState = "readonly"
    /\ country \in dropdownValues
    /\ country # selection
    /\ selection' = country
    /\ UNCHANGED <<qvars, pvars, threaded, mainPc, tasks, afterQueue, button,
                   dropdownState, dropdownValues, usdEntry, resultText,
                   mutations>>

\* on_close up to self.executor.shutdown(), which waits for the workers
on_close ==
    /\ mainPc = "idle"
    /\ mainPc' = "shutdown"
    /\ UNCHANGED <<qvars, pvars, threaded, tasks, afterQueue, button,
                   dropdownState, dropdownValues, selection, usdEntry,
                   resultText, mutations>>

WorkersIdle == \A i \in 1..Len(tasks) : tasks[i].state \in {"finished", "done"}

\* shutdown() returns once every worker has ended; then self.destroy()
destroy ==
    /\ mainPc = "shutdown"
    /\ WorkersIdle
    /\ mainPc' = "destroyed"
    /\ UNCHANGED <<qvars, pvars, threaded, tasks, afterQueue, button,
                   dropdownState, dropdownValues, selection, usdEntry,
                   resultText, mutations>>

\* What the worker threads can do
WorkerNext ==
    \E i \in 1..Len(tasks) :
        (\E out \in GuiOutcomes : WorkerFinish(i, out)) \/ WorkerCallback(i)

NextGui ==
    \/ \E i \in 1..Len(tasks), out \in GuiOutcomes : WorkerFinish(i, out)
    \/ \E i \in 1..Len(tasks) : WorkerCallback(i)
    \/ convert_onclick
    \/ add_done_callback
    \/ RunAfter
    \/ \E text \in UsdTexts : UserTypes(text)
    \/ \E country \in Countries : UserSelects(country)
    \/ on_close
    \/ destroy

SpecGui == InitGui /\ [][NextGui]_vars

----------------------------------------------------------------------------
(* Claims about the quarter-end resolver *)

QuarterEnd(t) ==
    IF t.month \in 1..3 THEN MkDate(t.year - 1, 12, 31)
    ELSE IF t.month \in 4..6 THEN MkDate(t.year, 3, 31)
    ELSE IF t.month \in 7..9 THEN MkDate(t.year, 6, 30)
    ELSE MkDate(t.year, 9, 30)

\* C1: for every current date, find_last_quarter_date returns the last day
\* of the most recently completed calendar quarter (Dec 31 of the previous
\* year in Jan-Mar, Mar 31, Jun 30, Sep 30 of this year otherwise); the
\* 365-day subtraction of the Jan-Mar branch lands in the previous year and
\* BusinessLogicException is never raised.
C1_QuarterEnd ==
    qres # None =>
        /\ qres = Return(QuarterEnd(today))
        /\ (today.month < APRIL =>
               MinusDays(today, ONE_YEAR_IN_DAYS).year = today.year - 1)

\* A leap day in Jan-Mar has been resolved to Dec 31 of the year before.
C1_Witness ==
    /\ today = MkDate(2024, 2, 29)
    /\ qres = Return(MkDate(2023, 12, 31))

----------------------------------------------------------------------------
(* Claims about the fetch client and the parser *)

HasRows(resp) ==
    resp.body.kind = "object" /\ "data" \in DOMAIN resp.body.members

DataOf(resp) == resp.body.members["data"]

Successful(resp) == resp.status_code < 400

\* The rows of data dated d, in the order of the response.
Matching(data, d) ==
    SelectSeq(data, LAMBDA r : strptime(r["record_date"]) = Return(d))

RowsOf(data, c) == SelectSeq(data, LAMBDA r : r["country"] = c)

ExpectedDict(data, d) ==
    LET m == Matching(data, d) IN
    [c \in {m[i]["country"] : i \in 1..Len(m)} |->
        [i \in 1..Len(RowsOf(m, c)) |->
            Currency(c, RowsOf(m, c)[i]["currency"],
                     RowsOf(m, c)[i]["exchange_rate"])]]

AllWellFormed(data) == \A i \in 1..Len(data) : data[i] \in WellFormedRows

\* C2: on a successful response whose rows are all well formed,
\* parse_treasury_response returns the mapping whose keys are the countries
\* of the rows dated the resolved quarter end, each with one Currency per
\* such row of the country, in response order; an empty data array or no
\* matching row gives the empty mapping and no error.
C2_ParseGroups ==
    (parseOut # None /\ Successful(response) /\ HasRows(response)
        /\ AllWellFormed(DataOf(response))) =>
        parseOut = Return(ExpectedDict(DataOf(response), QuarterEnd(today)))

\* Two matching rows of one country have been parsed into a list of two.
C2_Witness ==
    /\ parseOut.kind = "return"
    /\ "Germany" \in DOMAIN parseOut.value
    /\ Len(parseOut.value["Germany"]) = 2
    /\ parseOut.value["Germany"][1].currency_name = "Mark"

\* C3: get_currency_data returns a mapping or raises
\* BusinessLogicException, and nothing else, under every transport outcome
\* and every response.
C3_OnlyBusinessLogicException ==
    getOut # None =>
        getOut.kind = "return" \/ getOut = Raise("BusinessLogicException")

WithoutRow(resp, i) ==
    [resp EXCEPT !.body.members =
        [data |-> SubSeq(DataOf(resp), 1, i - 1) \o
                  SubSeq(DataOf(resp), i + 1, Len(DataOf(resp)))]]

AllDated(data) ==
    \A i \in 1..Len(data) :
        /\ "record_date" \in DOMAIN data[i]
        /\ strptime(data[i]["record_date"]).kind = "return"

NotMatching(r, d) == strptime(r["record_date"]) # Return(d)

\* C4 as stated: when every record_date is a date, a row dated otherwise
\* than the quarter end is skipped whatever its other fields contain or
\* lack: the parse gives what it gives without the row.
C4_SkippedWhateverFields ==
    (parseOut # None /\ HasRows(response) /\ AllDated(DataOf(response))) =>
        \A i \in 1..Len(DataOf(response)) :
            NotMatching(DataOf(response)[i], QuarterEnd(today)) =>
                parseOut = parse_treasury_response(WithoutRow(response, i), today)

\* C4 amended: when every record_date is a date, a row dated otherwise than
\* the quarter end that has its country, currency and exchange_rate fields
\* is skipped whatever they contain: the parse gives what it gives without
\* the row.
C4_SkippedWhenComplete ==
    (parseOut # None /\ HasRows(response) /\ AllDated(DataOf(response))) =>
        \A i \in 1..Len(DataOf(response)) :
            (NotMatching(DataOf(response)[i], QuarterEnd(today))
                /\ RowKeys \subseteq DOMAIN DataOf(response)[i]) =>
                parseOut = parse_treasury_response(WithoutRow(response, i), today)

\* A row dated otherwise has been skipped beside a row that was kept.
C4_Witness ==
    /\ parseOut.kind = "return"
    /\ HasRows(response)
    /\ Len(DataOf(response)) = 2
    /\ DataOf(response)[1] \in WellFormedRows
    /\ NotMatching(DataOf(response)[1], QuarterEnd(today))
    /\ DOMAIN parseOut.value = {"France"}

\* C6: fetch_treasury_data issues one GET per invocation; a timeout, a
\* connection error and any other request error all become DalException;
\* a response is handed back unchanged whatever its status.
C6_FetchUniform ==
    /\ gets = fetchCalls
    /\ fetchOut # None =>
          /\ transport \in TransportFailures => fetchOut = Raise("DalException")
          /\ transport = "ok" => fetchOut = Return(response)

\* A connection error has surfaced as DalException after one GET.
C6_Witness ==
    /\ transport = "ConnectionError"
    /\ fetchOut = Raise("DalException")
    /\ gets = 1

\* C7: on an error status parse_treasury_response raises
\* BusinessLogicException whatever the body holds, and returns no mapping.
C7_ErrorStatusRaises ==
    (parseOut # None /\ ~Successful(response)) =>
        parseOut = Raise("BusinessLogicException")

\* A status 500 response whose body holds a matching row has been refused.
C7_Witness ==
    /\ response.status_code = 500
    /\ HasRows(response)
    /\ Len(DataOf(response)) > 0
    /\ AllWellFormed(DataOf(response))
    /\ ~NotMatching(DataOf(response)[1], QuarterEnd(today))
    /\ parseOut = Raise("BusinessLogicException")

----------------------------------------------------------------------------
(* Claims about the form *)

\* C5: every update of presentation state that follows a fetch is run by
\* the interactive thread, never by a worker, on the success path and the
\* error path of the first-load fetch and of the convert fetch.
C5_UpdatesOnInteractiveThread ==
    \A m \in mutations : m[2] = "main"

\* C8: on_close destroys the window only after every submitted task has run
\* to completion, and the close completes: while the interactive thread
\* waits in shutdown(), a worker can still progress or the wait is over.
C8_CloseDrainsAndCompletes ==
    /\ mainPc = "destroyed" => WorkersIdle
    /\ mainPc = "shutdown" => (ENABLED WorkerNext) \/ (ENABLED destroy)

\* The fetch tasks submitted whose result has not been handled
Outstanding == {i \in 1..Len(tasks) : ~tasks[i].handled}

\* C9: at most one fetch task is outstanding; the convert button is
\* disabled until the first-load result has been rendered and from each
\* Convert click until that click's result has been handled, so it is
\* enabled only when no task is outstanding.
C9_AtMostOneOutstanding ==
    /\ Cardinality(Outstanding) <= 1
    /\ button = "normal" =>
          /\ Outstanding = {}
          /\ tasks[1].ending = "loaded"

\* A second Convert click is outstanding after the first one was handled.
C9_Witness ==
    /\ Len(tasks) = 3
    /\ tasks[2].handled
    /\ Outstanding = {3}
    /\ button = "disabled"

\* C10: once the fetch of the latest Convert click has ended (conversion
\* rendered, validation failed, or fetch failed with an error) the convert
\* button is enabled again.
C10_ButtonReenabled ==
    \A i \in 1..Len(tasks) :
        (/\ i = Len(tasks)
         /\ tasks[i].kind = "convert"
         /\ tasks[i].ending \in {"rendered", "invalid", "error"}) =>
            button = "normal"

\* C11: whenever update_conversion_form_for_convert looks up the selected
\* country in the mapping of the convert fetch, the country is a key of that
\* mapping: no convert result ends with the lookup raising KeyError.
C11_LookupNeverFails ==
    \A i \in 1..Len(tasks) : tasks[i].ending # "lookup_failed"

====
